---- MODULE Spec2Model ----
(***************************************************************************)
(* Model of the MAFC conversation orchestrator (agents/AgentSystem.ts),    *)
(* its text-generation client (services/llm.ts) and the part of App.tsx    *)
(* that drives it.                                                         *)
(*                                                                         *)
(* Text is a sequence of one-character strings; the two completion markers *)
(* and the fixed Chinese sentences keep their bodies as one token each.    *)
(* JavaScript runs every synchronous block and its microtasks to           *)
(* completion, so one action is one such block: a user event, or the       *)
(* continuation that runs when a pending fetch settles.                    *)
(***************************************************************************)
EXTENDS Integers, Sequences, FiniteSets, TLC

VARIABLES state, apiKey, turn, detached, app, prompt

vars == <<state, apiKey, turn, detached, app, prompt>>

(* Bounds of the exploration. *)
MaxHistory == 3
MaxDetached == 1
MaxAffix == 2
MaxContextHistory == 6

(***************************************************************************)
(* String primitives used by the orchestrator.                             *)
(***************************************************************************)
Whitespace == {" ", "\n"}

RECURSIVE trimStart(_)
trimStart(s) ==
  IF s # <<>> /\ Head(s) \in Whitespace THEN trimStart(Tail(s)) ELSE s

RECURSIVE trimEnd(_)
trimEnd(s) ==
  IF s # <<>> /\ s[Len(s)] \in Whitespace
  THEN trimEnd(SubSeq(s, 1, Len(s) - 1))
  ELSE s

trim(s) == trimEnd(trimStart(s))

(* 0-based: does pat occur in s at offset i *)
occursAt(s, pat, i) ==
  /\ i + Len(pat) <= Len(s)
  /\ SubSeq(s, i + 1, i + Len(pat)) = pat

(* lastIndexOf in place of indexOf *)
indexOfLast(s, pat) ==
  IF \E i \in 0..Len(s) : occursAt(s, pat, i)
  THEN CHOOSE i \in 0..Len(s) :
         occursAt(s, pat, i) /\ \A j \in (i + 1)..Len(s) : ~occursAt(s, pat, j)
  ELSE -1

indexOf(s, pat) ==
  IF \E i \in 0..Len(s) : occursAt(s, pat, i)
  THEN CHOOSE i \in 0..Len(s) :
         occursAt(s, pat, i) /\ \A j \in 0..(i - 1) : ~occursAt(s, pat, j)
  ELSE -1

includes(s, pat) == \E i \in 0..Len(s) : occursAt(s, pat, i)

(* String.prototype.substring(a, b), 0-based, end exclusive *)
substring(s, a, b) == SubSeq(s, a + 1, b)

(***************************************************************************)
(* Literals of AgentSystem.ts                                              *)
(***************************************************************************)
PROFILE_READY == <<"|", "|", "PROFILE_READY", "|", "|">>
DEMAND_LOCKED == <<"|", "|", "DEMAND_LOCKED", "|", "|">>

(* One token per Chinese character, in pinyin: fan-hui, shang-yi-bu, hui-qu,  *)
(* tui-hui, chong-xin, chong-lai.                                           *)
backwardKeywords ==
  { <<"fan", "hui">>, <<"shang", "yi", "bu">>, <<"hui", "qu">>,
    <<"tui", "hui">>, <<"chong", "xin">>, <<"chong", "lai">> }

AgentRole == {"PROFILER", "SPECIALIST", "CRITIC", "HOST"}

NoName == "-"

Message(role, name, content) ==
  [role |-> role, agentName |-> name, content |-> content]


(***************************************************************************)
(* Inputs: what the user types, what the endpoint answers, the credential. *)
(***************************************************************************)
UserTexts ==
  { <<"h", "i">>,
    <<"fan", "hui", "shang", "yi", "bu">>,
    <<"x", "chong", "lai">> }

Responses ==
  { <<"o", "k">>,
    <<"o", "k", "\n", "|", "|", "PROFILE_READY", "|", "|", " ", "k", "w">>,
    <<" ", "g", " ", "|", "|", "DEMAND_LOCKED", "|", "|", "d", "m", "\n">> }

ApiKeys == { <<>>, <<" ">>, <<"A", "I", "z", "a">> }

(* What the fetch of one generation request settles to. *)
NetworkError == [kind |-> "reject"]
(* Response.ok is true for the statuses 200..299; status and statusText   *)
(* are kept as text, as they are interpolated into the error message.     *)
OkStatuses == {"200"}

StatusText(status) ==
  CASE status = "200" -> "OK"
    [] status = "404" -> "Not Found"
    [] status = "500" -> "Internal Server Error"

(* body is what response.text() gives, candidates is data.candidates of   *)
(* response.json() (empty also when the field is absent)                  *)
HttpResponse(status, body, cands) ==
  [kind |-> "response", ok |-> status \in OkStatuses, status |-> status,
   statusText |-> StatusText(status), body |-> body, candidates |-> cands]

HttpError == HttpResponse("500", <<"e">>, <<>>)
HttpOk(cands) == HttpResponse("200", <<>>, cands)

FetchResults ==
  {NetworkError, HttpError, HttpOk(<<>>)} \cup {HttpOk(<<r>>) : r \in Responses}

(***************************************************************************)
(* services/llm.ts                                                         *)
(***************************************************************************)
Returned(text) == [ok |-> TRUE, text |-> text]
Thrown(message) == [ok |-> FALSE, text |-> <<message>>]

keyMissingEmptyOnly(key) == key = <<>>

(* the guard before the request is built *)
keyMissing(key) == key = <<>> \/ trim(key) = <<>>

(* the outcome of callGemini once its fetch has settled *)
callGeminiCandidatesFirst(res) ==
  IF res.kind = "reject" THEN Thrown("Failed to fetch")
  ELSE IF Len(res.candidates) > 0 THEN Returned(res.candidates[1])
  ELSE IF ~res.ok
  THEN [ok |-> FALSE,
        text |-> <<"API Error ", res.status, ": ", res.statusText, ". ">> \o res.body]
  ELSE Thrown("No candidates returned from API")

callGemini(res) ==
  IF res.kind = "reject" THEN Thrown("Failed to fetch")
  ELSE IF ~res.ok
  THEN [ok |-> FALSE,
        text |-> <<"API Error ", res.status, ": ", res.statusText, ". ">> \o res.body]
  ELSE IF Len(res.candidates) > 0 THEN Returned(res.candidates[1])
  ELSE Thrown("No candidates returned from API")

(***************************************************************************)
(* agents/AgentSystem.ts: the methods as functions of this.state           *)
(***************************************************************************)
AgentSystemNew ==
  [ currentRole |-> "PROFILER",
    userProfile |-> <<>>,
    currentDemand |-> <<>>,
    recommendations |-> <<>>,
    history |-> <<>>,
    stateHistory |-> <<"PROFILER">> ]

setHistory(s, history) == [s EXCEPT !.history = history]

isBackwardRequestAtStart(text) ==
  \E keyword \in backwardKeywords : occursAt(text, keyword, 0)

isBackwardRequest(text) == \E keyword \in backwardKeywords : includes(text, keyword)

transitionToRoleOnly(s, newRole) == [s EXCEPT !.currentRole = newRole]

transitionTo(s, newRole) ==
  [s EXCEPT !.stateHistory = Append(@, newRole), !.currentRole = newRole]

(* unshift in place of push *)
addAgentMessageFront(s, name, content) ==
  [s EXCEPT !.history = <<Message("agent", name, content)>> \o @]

addAgentMessage(s, name, content) ==
  [s EXCEPT !.history = Append(@, Message("agent", name, content))]

addSystemMessage(s, text) == addAgentMessage(s, "System", text)

(* Array.prototype.slice(-limit): the last limit elements, all of them   *)
(* when there are fewer (and when limit is 0, as -0 is 0)                 *)
sliceLast(seq, limit) ==
  IF limit = 0 \/ limit >= Len(seq) THEN seq
  ELSE SubSeq(seq, Len(seq) - limit + 1, Len(seq))

RECURSIVE join(_, _)
join(texts, sep) ==
  IF texts = <<>> THEN <<>>
  ELSE IF Len(texts) = 1 THEN texts[1]
  ELSE texts[1] \o <<sep>> \o join(Tail(texts), sep)

(* slice(0, limit) in place of slice(-limit) *)
buildContextFirst(s, limit) ==
  LET first == SubSeq(s.history, 1, IF limit < Len(s.history) THEN limit ELSE Len(s.history))
  IN  join([i \in DOMAIN first |-> <<first[i].role, ": ">> \o first[i].content], "\n")

buildContext(s, limit) ==
  LET last == sliceLast(s.history, limit)
  IN  join([i \in DOMAIN last |-> <<last[i].role, ": ">> \o last[i].content], "\n")

(* the limit runProfiler, runSpecialist and runHost pass to buildContext *)
ContextLimit == 5

getAgentName(role) ==
  CASE role = "PROFILER" -> "Profiler"
    [] role = "SPECIALIST" -> "Genre Specialist"
    [] role = "CRITIC" -> "Critic"
    [] role = "HOST" -> "Host"
    [] OTHER -> "Agent"

(* the data cleared, and the message sent, on arriving back at previousRole *)
clearDependentKeepsDemand(s, previousRole) ==
  IF previousRole = "PROFILER"
  THEN addAgentMessage(
         [s EXCEPT !.userProfile = <<>>, !.currentDemand = <<>>,
                   !.recommendations = <<>>],
         "Profiler", <<"let us start over">>)
  ELSE IF previousRole = "SPECIALIST"
  THEN addAgentMessage([s EXCEPT !.recommendations = <<>>],
                       "Genre Specialist", <<"let us confirm again">>)
  ELSE IF previousRole = "HOST"
  THEN addAgentMessage(s, "Host", <<"anything to recommend again">>)
  ELSE s

clearDependent(s, previousRole) ==
  IF previousRole = "PROFILER"
  THEN addAgentMessage(
         [s EXCEPT !.userProfile = <<>>, !.currentDemand = <<>>,
                   !.recommendations = <<>>],
         "Profiler", <<"let us start over">>)
  ELSE IF previousRole = "SPECIALIST"
  THEN addAgentMessage(
         [s EXCEPT !.currentDemand = <<>>, !.recommendations = <<>>],
         "Genre Specialist", <<"let us confirm again">>)
  ELSE IF previousRole = "HOST"
  THEN addAgentMessage(s, "Host", <<"anything to recommend again">>)
  ELSE s

(* the guard as "< 1": the only entry is popped and the role read from an *)
(* empty array is undefined                                               *)
goBackUnguarded(s) ==
  IF Len(s.stateHistory) < 1
  THEN addAgentMessage(s, "System", <<"already at the first step">>)
  ELSE
    LET popped == SubSeq(s.stateHistory, 1, Len(s.stateHistory) - 1)
        previousRole == IF popped = <<>> THEN "undefined" ELSE popped[Len(popped)]
    IN  clearDependent(
          [s EXCEPT !.stateHistory = popped, !.currentRole = previousRole],
          previousRole)

goBackRefusesSilently(s) ==
  IF Len(s.stateHistory) <= 1
  THEN s
  ELSE
    LET popped == SubSeq(s.stateHistory, 1, Len(s.stateHistory) - 1)
        previousRole == popped[Len(popped)]
    IN  clearDependent(
          [s EXCEPT !.stateHistory = popped, !.currentRole = previousRole],
          previousRole)

goBack(s) ==
  IF Len(s.stateHistory) <= 1
  THEN addAgentMessage(s, "System", <<"already at the first step">>)
  ELSE
    LET popped == SubSeq(s.stateHistory, 1, Len(s.stateHistory) - 1)
        previousRole == popped[Len(popped)]
    IN  clearDependent(
          [s EXCEPT !.stateHistory = popped, !.currentRole = previousRole],
          previousRole)

runProfilerStays(s, response) ==
  IF includes(response, PROFILE_READY)
  THEN
    LET markerIndex == indexOf(response, PROFILE_READY)
        reply == trim(substring(response, 0, markerIndex))
        profileData ==
          trim(substring(response, markerIndex + Len(PROFILE_READY), Len(response)))
    IN  addAgentMessage([s EXCEPT !.userProfile = profileData], "Profiler", reply)
  ELSE addAgentMessage(s, "Profiler", response)

(* runProfiler after its await *)
runProfiler(s, response) ==
  IF includes(response, PROFILE_READY)
  THEN
    LET markerIndex == indexOf(response, PROFILE_READY)
        reply == trim(substring(response, 0, markerIndex))
        profileData ==
          trim(substring(response, markerIndex + Len(PROFILE_READY), Len(response)))
    IN  transitionTo(
          addAgentMessage([s EXCEPT !.userProfile = profileData], "Profiler", reply),
          "SPECIALIST")
  ELSE addAgentMessage(s, "Profiler", response)

(* runSpecialist after its await, up to the call of runCriticAndHost *)
runSpecialist(s, response) ==
  IF includes(response, DEMAND_LOCKED)
  THEN
    LET markerIndex == indexOf(response, DEMAND_LOCKED)
        reply == trim(substring(response, 0, markerIndex))
        demandData ==
          trim(substring(response, markerIndex + Len(DEMAND_LOCKED), Len(response)))
    IN  transitionTo(
          addAgentMessage([s EXCEPT !.currentDemand = demandData],
                          "Genre Specialist", reply),
          "CRITIC")
  ELSE addAgentMessage(s, "Genre Specialist", response)

(* runCriticAndHost between its two awaits *)
criticStep(s, criticResponse) ==
  transitionTo([s EXCEPT !.recommendations = criticResponse], "HOST")

(* runCriticAndHost after its second await *)
hostStep(s, hostResponse) == addAgentMessage(s, "Host", hostResponse)

runHostTrimmed(s, response) == addAgentMessage(s, "Host", trim(response))

(* runHost after its await *)
runHost(s, response) == addAgentMessage(s, "Host", response)

(* the catch block of processUserMessage *)
errorText(errorMsg) == <<"error: ">> \o errorMsg \o <<". check your API Key and network">>

catchError(s, errorMsg) == addSystemMessage(s, errorText(errorMsg))


(***************************************************************************)
(* What a turn does that its caller can observe, in order: the callbacks   *)
(* onAgentChange and onMessageUpdate, the generation requests it issues    *)
(* and the error it throws.                                                *)
(***************************************************************************)
Notify(agent) == <<"agent", agent>>
Call(role) == <<"call", role>>
Emit(msg) == <<"msg", msg.agentName>>
Throw(role) == <<"throw", role>>

(* onMessageUpdate fires once for every message addAgentMessage pushed *)
emitted(s, s1) ==
  [i \in 1..(Len(s1.history) - Len(s.history)) |-> Emit(s1.history[Len(s.history) + i])]

Settled == {"idle", "resolved", "caught"}
Awaiting == {"runProfiler", "runSpecialist", "runHost"}

runOf(role) ==
  CASE role = "PROFILER" -> "runProfiler"
    [] role = "SPECIALIST" -> "runSpecialist"
    [] role = "HOST" -> "runHost"

(* App.tsx: the welcome message of a first start, and of a cleared chat *)
initialMessages == <<Message("agent", "Profiler", <<"welcome">>)>>
clearedMessages == <<Message("agent", "Profiler", <<"history cleared">>)>>

(* App.tsx: the component's state beside the message list, and the list  *)
(* as the save effect last wrote it to storage                             *)
AppNew == [isTyping |-> FALSE, model |-> "gemini-2.5-flash", stored |-> initialMessages]

(* the orchestrator alone: the component's state and the prompt text are  *)
(* not observed                                                            *)
Unobserved == UNCHANGED <<app, prompt>>

Init ==
  /\ app = AppNew
  /\ prompt = <<>>
  /\ apiKey \in ApiKeys
  /\ state = setHistory(AgentSystemNew, initialMessages)
  /\ turn = [pc |-> "idle", text |-> <<>>, role0 |-> "PROFILER",
             stack0 |-> <<"PROFILER">>, log |-> <<>>, error |-> <<>>]
  /\ detached = <<>>

(***************************************************************************)
(* App.handleSendMessage: the user message joins the list, the list is     *)
(* handed to the orchestrator and processUserMessage runs up to its first  *)
(* pending fetch (or to its end when there is none).                       *)
(***************************************************************************)
processUserMessage(s, userText) ==
  LET begun == [pc |-> "idle", text |-> userText, role0 |-> s.currentRole,
                stack0 |-> s.stateHistory, log |-> <<>>, error |-> <<>>]
      configError == <<"API key is empty or missing">>
      named == <<Notify(getAgentName(s.currentRole))>>
  IN  IF isBackwardRequest(userText)
      THEN [state |-> goBack(s),
            turn |-> [begun EXCEPT !.pc = "resolved", !.log = emitted(s, goBack(s))]]
      ELSE IF s.currentRole = "CRITIC"
      THEN [state |-> s, turn |-> [begun EXCEPT !.pc = "resolved", !.log = named]]
      ELSE IF keyMissing(apiKey)
      THEN LET s1 == catchError(s, configError)
           IN  [state |-> s1,
                turn |-> [begun EXCEPT !.pc = "rejected", !.error = configError,
                            !.log = named \o <<Throw(s.currentRole)>> \o emitted(s, s1)]]
      ELSE [state |-> s,
            turn |-> [begun EXCEPT !.pc = runOf(s.currentRole),
                        !.log = named \o <<Call(s.currentRole)>>]]

handleSendMessage(text) ==
  /\ turn.pc \in Settled
  /\ LET newHistory == Append(state.history, Message("user", NoName, text))
         after == processUserMessage(setHistory(state, newHistory), text)
     IN  /\ Len(after.state.history) <= MaxHistory
         /\ state' = after.state
         /\ turn' = after.turn
  /\ UNCHANGED <<apiKey, detached>>

(* the .catch of handleSendMessage: the error message joins the list *)
appErrorText(errorMessage) == <<"X error: ">> \o errorMessage \o <<"please check">>

handleSendMessageCatch ==
  /\ turn.pc = "rejected"
  /\ Len(state.history) < MaxHistory
  /\ state' = setHistory(state,
       Append(state.history, Message("system", NoName, appErrorText(turn.error))))
  /\ turn' = [turn EXCEPT !.pc = "caught"]
  /\ UNCHANGED <<apiKey, detached>>

(* App.handleClearHistory and the effect that re-syncs the orchestrator *)
handleClearHistory ==
  /\ state' = setHistory(setHistory(state, <<>>), clearedMessages)
  /\ UNCHANGED <<apiKey, turn, detached>>


(***************************************************************************)
(* The pending fetch of the turn settles and the turn runs to its end.     *)
(***************************************************************************)
(* a catch that issues the request again instead of rethrowing *)
turnThrowsRetries(res) ==
  /\ ~callGemini(res).ok
  /\ Len(turn.log) < 2 * MaxHistory
  /\ turn' = [turn EXCEPT !.log = @ \o <<Throw(turn.role0), Call(turn.role0)>>]
  /\ UNCHANGED <<state, apiKey, detached>>

turnThrows(res) ==
  LET s1 == catchError(state, callGemini(res).text)
  IN  /\ ~callGemini(res).ok
      /\ Len(s1.history) <= MaxHistory
      /\ state' = s1
      /\ turn' = [turn EXCEPT !.pc = "rejected", !.error = callGemini(res).text,
                    !.log = @ \o <<Throw(turn.role0)>> \o emitted(state, s1)]
      /\ UNCHANGED <<apiKey, detached>>

turnReturns(s1) ==
  /\ Len(s1.history) <= MaxHistory
  /\ state' = s1
  /\ turn' = [turn EXCEPT !.pc = "resolved", !.log = @ \o emitted(state, s1)]
  /\ UNCHANGED <<apiKey, detached>>

profilerSettles(res) ==
  /\ turn.pc = "runProfiler"
  /\ \/ turnThrows(res)
     \/ /\ callGemini(res).ok
        /\ turnReturns(runProfiler(state, callGemini(res).text))

hostSettles(res) ==
  /\ turn.pc = "runHost"
  /\ \/ turnThrows(res)
     \/ /\ callGemini(res).ok
        /\ turnReturns(runHost(state, callGemini(res).text))

(* runSpecialist calls runCriticAndHost without awaiting it: the call     *)
(* runs to its first await (the critic request is issued) and the promise *)
(* it returns is dropped; runSpecialist then returns.                     *)
specialistSettles(res) ==
  /\ turn.pc = "runSpecialist"
  /\ \/ turnThrows(res)
     \/ /\ callGemini(res).ok
        /\ ~includes(callGemini(res).text, DEMAND_LOCKED)
        /\ turnReturns(runSpecialist(state, callGemini(res).text))
     \/ /\ callGemini(res).ok
        /\ includes(callGemini(res).text, DEMAND_LOCKED)
        /\ Len(detached) < MaxDetached
        /\ LET s1 == runSpecialist(state, callGemini(res).text)
               log == turn.log \o emitted(state, s1)
                        \o <<Notify("Critic Agent"), Call("CRITIC")>>
           IN  /\ Len(s1.history) <= MaxHistory
               /\ state' = s1
               /\ turn' = [turn EXCEPT !.pc = "resolved", !.log = log]
               /\ detached' = Append(detached,
                    [pc |-> "critic", role0 |-> turn.role0,
                     stack0 |-> turn.stack0, log |-> log])
               /\ apiKey' = apiKey

(***************************************************************************)
(* runCriticAndHost, running on its own after the turn that started it.    *)
(* Nothing handles its rejection.                                          *)
(***************************************************************************)
remove(seq, i) == SubSeq(seq, 1, i - 1) \o SubSeq(seq, i + 1, Len(seq))

criticSettles(i, res) ==
  /\ i \in DOMAIN detached
  /\ detached[i].pc = "critic"
  /\ \/ /\ ~callGemini(res).ok
        /\ detached' = remove(detached, i)
        /\ state' = state
     \/ /\ callGemini(res).ok
        /\ state' = criticStep(state, callGemini(res).text)
        /\ detached' = [detached EXCEPT ![i].pc = "host",
                          ![i].log = @ \o <<Notify("Host Agent"), Call("HOST")>>]
  /\ UNCHANGED <<apiKey, turn>>

hostStepSettles(i, res) ==
  /\ i \in DOMAIN detached
  /\ detached[i].pc = "host"
  /\ \/ /\ ~callGemini(res).ok
        /\ state' = state
     \/ /\ callGemini(res).ok
        /\ Len(state.history) < MaxHistory
        /\ state' = hostStep(state, callGemini(res).text)
  /\ detached' = remove(detached, i)
  /\ UNCHANGED <<apiKey, turn>>

Next ==
  \/ \E text \in UserTexts : handleSendMessage(text) /\ Unobserved
  \/ handleSendMessageCatch /\ Unobserved
  \/ handleClearHistory /\ Unobserved
  \/ \E res \in FetchResults : profilerSettles(res) /\ Unobserved
  \/ \E res \in FetchResults : specialistSettles(res) /\ Unobserved
  \/ \E res \in FetchResults : hostSettles(res) /\ Unobserved
  \/ \E i \in 1..MaxDetached, res \in FetchResults : criticSettles(i, res) /\ Unobserved
  \/ \E i \in 1..MaxDetached, res \in FetchResults : hostStepSettles(i, res) /\ Unobserved

Spec == Init /\ [][Next]_vars


(***************************************************************************)
(* The marker parsing of runProfiler and runSpecialist on its own: a turn  *)
(* is waiting for its reply in the PROFILER or the SPECIALIST stage, and   *)
(* the reply is any text around, between or without the two markers.       *)
(***************************************************************************)
Affixes == UNION {[1..n -> {"a", " "}] : n \in 0..MaxAffix}

Markers == {PROFILE_READY, DEMAND_LOCKED}

ParseResponses ==
  {a \o m \o b : a \in Affixes, b \in Affixes, m \in Markers}
    \cup {m \o b \o n : m \in Markers, n \in Markers, b \in {<<>>, <<" ">>, <<"a">>}}
    \cup {<<"|">> \o m \o <<"|">> : m \in Markers}
    \cup {m \o SubSeq(m, 3, 5) : m \in Markers}
    \cup Affixes

ParseFetchResults == {NetworkError} \cup {HttpOk(<<r>>) : r \in ParseResponses}

ParseStages ==
  { AgentSystemNew,
    transitionTo([AgentSystemNew EXCEPT !.userProfile = <<"k", "w">>], "SPECIALIST") }

InitParse ==
  /\ app = AppNew
  /\ prompt = <<>>
  /\ apiKey = <<"A", "I", "z", "a">>
  /\ detached = <<>>
  /\ \E s0 \in ParseStages :
       LET text == <<"h", "i">>
           after == processUserMessage(
                      setHistory(s0, <<Message("user", NoName, text)>>), text)
       IN  state = after.state /\ turn = after.turn

NextParse ==
  \/ \E res \in ParseFetchResults : profilerSettles(res) /\ Unobserved
  \/ \E res \in ParseFetchResults : specialistSettles(res) /\ Unobserved

SpecParse == InitParse /\ [][NextParse]_vars


(***************************************************************************)
(* The generation client under every kind of answer: any status, with any  *)
(* body and with none, one or two candidates, seen through PROFILER turns. *)
(***************************************************************************)
ClientStatuses == {"200", "404", "500"}
ClientBodies == { <<>>, <<"b", "a", "d">>, <<"{", "}">> }
ClientCandidates == { <<>>, <<<<"o", "k">>>>, <<<<"n", "o">>, <<"o", "k">>>> }

ClientFetchResults ==
  {NetworkError}
    \cup {HttpResponse(st, b, c) :
            st \in ClientStatuses, b \in ClientBodies, c \in ClientCandidates}

NextClient ==
  \/ \E text \in UserTexts : handleSendMessage(text) /\ Unobserved
  \/ handleSendMessageCatch /\ Unobserved
  \/ handleClearHistory /\ Unobserved
  \/ \E res \in ClientFetchResults : profilerSettles(res) /\ Unobserved

SpecClient == Init /\ [][NextClient]_vars


(***************************************************************************)
(* The history context of the prompts on its own: the caller supplies a    *)
(* history of any length, a PROFILER, SPECIALIST or HOST turn builds its   *)
(* prompt from it, the reply is appended, and the caller may supply        *)
(* another history between turns.                                          *)
(***************************************************************************)
ContextMessages ==
  { Message("user", NoName, <<"h", "i">>), Message("agent", "Profiler", <<"o", "k">>) }

SuppliedHistories ==
  UNION {[1..n -> ContextMessages] : n \in 0..MaxContextHistory}

(* what the caller puts in place between turns: nothing, the welcome, or *)
(* a long conversation loaded from storage                                *)
LoadedHistories ==
  { <<>>, initialMessages,
    [i \in 1..MaxContextHistory |->
       IF i % 2 = 1 THEN Message("agent", "Profiler", <<"o", "k">>)
       ELSE Message("user", NoName, <<"h", "i">>)] }

ContextStages ==
  { AgentSystemNew,
    transitionTo(AgentSystemNew, "SPECIALIST"),
    transitionTo(transitionTo(transitionTo(AgentSystemNew, "SPECIALIST"), "CRITIC"), "HOST") }

InitContext ==
  /\ app = AppNew
  /\ prompt = <<>>
  /\ apiKey = <<"A", "I", "z", "a">>
  /\ detached = <<>>
  /\ turn = [pc |-> "idle", text |-> <<>>, role0 |-> "PROFILER",
             stack0 |-> <<"PROFILER">>, log |-> <<>>, error |-> <<>>]
  /\ \E s0 \in ContextStages, history \in SuppliedHistories :
       state = setHistory(s0, history)

(* processUserMessage up to the await of its stage: the prompt is built *)
promptBuilt(text) ==
  /\ turn.pc \in Settled
  /\ LET after == processUserMessage(state, text)
     IN  /\ after.turn.pc \in Awaiting
         /\ state' = after.state
         /\ turn' = after.turn
  /\ prompt' = buildContext(state, ContextLimit)
  /\ UNCHANGED <<apiKey, detached, app>>

(* the request is answered without a marker: the reply is appended *)
replyAppended(response) ==
  /\ turn.pc \in Awaiting
  /\ Len(state.history) < MaxContextHistory
  /\ state' = CASE turn.pc = "runProfiler" -> runProfiler(state, response)
                [] turn.pc = "runSpecialist" -> runSpecialist(state, response)
                [] turn.pc = "runHost" -> runHost(state, response)
  /\ turn' = [turn EXCEPT !.pc = "resolved", !.log = @ \o emitted(state, state')]
  /\ UNCHANGED <<apiKey, detached, app, prompt>>

(* the caller replaces the history between turns *)
historySupplied(history) ==
  /\ turn.pc \in Settled
  /\ state' = setHistory(state, history)
  /\ UNCHANGED <<apiKey, turn, detached, app, prompt>>

NextContext ==
  \/ promptBuilt(<<"h", "i">>)
  \/ replyAppended(<<"o", "k">>)
  \/ \E history \in LoadedHistories : historySupplied(history)

SpecContext == InitContext /\ [][NextContext]_vars


(***************************************************************************)
(* App.tsx around the orchestrator: the typing indicator, the settings and *)
(* the message list in storage.  The array the orchestrator pushes to is   *)
(* the array of the messages state (handleSendMessage and the sync effect  *)
(* hand it over by reference), so state.history is also the content of the *)
(* messages state.  The save effect runs when the messages state gets a    *)
(* new array, not when the array it holds is pushed to.                    *)
(***************************************************************************)
SettingsKeys == { <<"A", "I", "z", "a">>, <<"A", "I", "z", "b">> }
SettingsModels == {"gemini-2.5-flash", "gemini-2.5-pro"}

(* what the user types and what the endpoint answers in this part *)
AppTexts == { <<"h", "i">>, <<"x", "chong", "lai">> }
AppFetchResults == {NetworkError} \cup {HttpOk(<<r>>) : r \in Responses}

(* setIsTyping as the callbacks of one step leave it: onAgentChange sets  *)
(* it, onMessageUpdate clears it, the last one wins                        *)
typingAfter(typing, events) ==
  LET calls == SelectSeq(events, LAMBDA e : e[1] = "agent" \/ e[1] = "msg")
  IN  IF calls = <<>> THEN typing ELSE calls[Len(calls)][1] = "agent"

(* no instance exists while the credential is empty (agent-system effect) *)
InitApp ==
  /\ app = AppNew
  /\ prompt = <<>>
  /\ apiKey \in {<<>>} \cup SettingsKeys
  /\ state = setHistory(AgentSystemNew, initialMessages)
  /\ turn = [pc |-> "idle", text |-> <<>>, role0 |-> "PROFILER",
             stack0 |-> <<"PROFILER">>, log |-> <<>>, error |-> <<>>]
  /\ detached = <<>>

appHandleSendMessage(text) ==
  /\ apiKey # <<>>
  /\ handleSendMessage(text)
  /\ app' = [app EXCEPT !.isTyping = typingAfter(TRUE, turn'.log),
                        !.stored = state'.history]
  /\ prompt' = prompt

appHandleSendMessageCatch ==
  /\ handleSendMessageCatch
  /\ app' = [app EXCEPT !.isTyping = FALSE, !.stored = state'.history]
  /\ prompt' = prompt

appHandleClearHistory ==
  /\ handleClearHistory
  /\ app' = [app EXCEPT !.stored = state'.history]
  /\ prompt' = prompt

(* the callbacks of a settling turn; the pushed message is already in the *)
(* array of the messages state, so that state keeps its array              *)
appTurnSettles(res) ==
  /\ \/ profilerSettles(res)
     \/ specialistSettles(res)
     \/ hostSettles(res)
  /\ app' = [app EXCEPT !.isTyping =
               typingAfter(@, SubSeq(turn'.log, Len(turn.log) + 1, Len(turn'.log)))]
  /\ prompt' = prompt

appCriticSettles(i, res) ==
  /\ criticSettles(i, res)
  /\ app' = [app EXCEPT !.isTyping = IF callGemini(res).ok THEN TRUE ELSE @]
  /\ prompt' = prompt

appHostStepSettles(i, res) ==
  /\ hostStepSettles(i, res)
  /\ app' = [app EXCEPT !.isTyping = IF callGemini(res).ok THEN FALSE ELSE @]
  /\ prompt' = prompt

(* setApiKey/setModel on the instance in place, with no new AgentSystem *)
saveSettingsKeepsInstance(key, selectedModel) ==
  /\ turn.pc \in Settled
  /\ detached = <<>>
  /\ apiKey' = key
  /\ app' = [app EXCEPT !.model = selectedModel]
  /\ UNCHANGED <<state, turn, detached, prompt>>

(* App.saveSettings and the agent-system effect, taken while no request   *)
(* is pending: a changed credential or model makes a new AgentSystem,      *)
(* which gets the messages as its history                                  *)
saveSettings(key, selectedModel) ==
  /\ turn.pc \in Settled
  /\ detached = <<>>
  /\ apiKey' = key
  /\ app' = [app EXCEPT !.model = selectedModel]
  /\ IF key # apiKey \/ selectedModel # app.model
     THEN /\ state' = setHistory(AgentSystemNew, state.history)
          /\ turn' = [pc |-> "idle", text |-> <<>>, role0 |-> "PROFILER",
                      stack0 |-> <<"PROFILER">>, log |-> <<>>, error |-> <<>>]
     ELSE UNCHANGED <<state, turn>>
  /\ UNCHANGED <<detached, prompt>>

NextApp ==
  \/ \E text \in AppTexts : appHandleSendMessage(text)
  \/ appHandleSendMessageCatch
  \/ appHandleClearHistory
  \/ \E res \in AppFetchResults : appTurnSettles(res)
  \/ \E i \in 1..MaxDetached, res \in AppFetchResults : appCriticSettles(i, res)
  \/ \E i \in 1..MaxDetached, res \in AppFetchResults : appHostStepSettles(i, res)
  \/ \E key \in SettingsKeys, selectedModel \in SettingsModels :
       saveSettings(key, selectedModel)

SpecApp == InitApp /\ [][NextApp]_vars

(* The settings dialog used between requests: the user sends, waits for   *)
(* the answers, and saves settings or clears the history.                  *)
sendBetweenRequests(text) ==
  /\ apiKey # <<>>
  /\ detached = <<>>
  /\ handleSendMessage(text)

NextSettings ==
  \/ \E text \in AppTexts : sendBetweenRequests(text) /\ Unobserved
  \/ handleSendMessageCatch /\ Unobserved
  \/ handleClearHistory /\ Unobserved
  \/ \E res \in AppFetchResults : profilerSettles(res) /\ Unobserved
  \/ \E res \in AppFetchResults : specialistSettles(res) /\ Unobserved
  \/ \E res \in AppFetchResults : hostSettles(res) /\ Unobserved
  \/ \E i \in 1..MaxDetached, res \in AppFetchResults : criticSettles(i, res) /\ Unobserved
  \/ \E i \in 1..MaxDetached, res \in AppFetchResults : hostStepSettles(i, res) /\ Unobserved
  \/ \E key \in SettingsKeys, selectedModel \in SettingsModels :
       saveSettings(key, selectedModel)

SpecSettings == InitApp /\ [][NextSettings]_vars

(* every generation request is answered or fails, and the rejection of a  *)
(* turn reaches the .catch of handleSendMessage                            *)
SpecAppLive ==
  /\ SpecApp
  /\ WF_vars(\E res \in AppFetchResults : appTurnSettles(res))
  /\ WF_vars(\E i \in 1..MaxDetached, res \in AppFetchResults : appCriticSettles(i, res))
  /\ WF_vars(\E i \in 1..MaxDetached, res \in AppFetchResults : appHostStepSettles(i, res))
  /\ WF_vars(appHandleSendMessageCatch)


(***************************************************************************)
(* Vocabulary of the properties, stated without the orchestrator's own     *)
(* parsing functions.                                                      *)
(***************************************************************************)
Occurs(text, pat) ==
  \E i \in 1..Len(text), j \in 1..Len(text) : SubSeq(text, i, j) = pat

HasBackwardKeyword(text) == \E kw \in backwardKeywords : Occurs(text, kw)

BackwardTexts == {text \in UserTexts : HasBackwardKeyword(text)}

IsPrefix(a, text) == Len(a) <= Len(text) /\ SubSeq(text, 1, Len(a)) = a

(* the text before the first occurrence of marker m *)
BeforeFirst(text, m) ==
  CHOOSE a \in {SubSeq(text, 1, n) : n \in 0..Len(text)} :
    /\ IsPrefix(a \o m, text)
    /\ \A n \in 0..(Len(a) - 1) : ~IsPrefix(SubSeq(text, 1, n) \o m, text)

(* the text after the first occurrence of marker m *)
AfterFirst(text, m) ==
  SubSeq(text, Len(BeforeFirst(text, m)) + Len(m) + 1, Len(text))

(* t without its leading and trailing whitespace *)
Stripped(t) ==
  CHOOSE u \in {SubSeq(t, i, j) : i \in 1..(Len(t) + 1), j \in 0..Len(t)} :
    \E i \in 1..(Len(t) + 1), j \in 0..Len(t) :
      /\ u = SubSeq(t, i, j)
      /\ \A k \in 1..(i - 1) : t[k] \in Whitespace
      /\ \A k \in (j + 1)..Len(t) : t[k] \in Whitespace
      /\ i <= j => (t[i] \notin Whitespace /\ t[j] \notin Whitespace)

CallsOf(log) == SelectSeq(log, LAMBDA e : e[1] = "call")
NotificationsOf(log) == SelectSeq(log, LAMBDA e : e[1] = "agent")
MessagesOf(log) == SelectSeq(log, LAMBDA e : e[1] = "msg")

ExtractedSame ==
  /\ state'.userProfile = state.userProfile
  /\ state'.currentDemand = state.currentDemand
  /\ state'.recommendations = state.recommendations

StageSame ==
  /\ state'.currentRole = state.currentRole
  /\ state'.stateHistory = state.stateHistory

(* C1: in every reachable state the current stage is the top of the stage *)
(* stack.                                                                  *)
C1_CurrentRoleIsTop ==
  state.currentRole = state.stateHistory[Len(state.stateHistory)]

(* a forward transition, a backward navigation and a completed critic     *)
(* call have all acted on the stack                                        *)
C1_Witness ==
  /\ state.stateHistory = <<"PROFILER", "SPECIALIST", "HOST">>
  /\ state.currentRole = "HOST"

(* C2: when a SPECIALIST response carries DEMAND_LOCKED, the turn resolves *)
(* only after the critic call and then the host call have been issued, and *)
(* the stage is HOST when it resolves.                                     *)
C2_CompoundBeforeResolve ==
  [][\A res \in AppFetchResults :
       ( /\ specialistSettles(res)
         /\ callGemini(res).ok
         /\ Occurs(callGemini(res).text, DEMAND_LOCKED)
         /\ turn'.pc = "resolved" )
       => /\ CallsOf(turn'.log) = <<Call("SPECIALIST"), Call("CRITIC"), Call("HOST")>>
          /\ state'.currentRole = "HOST"]_vars

(* C3: a PROFILER response carrying PROFILE_READY stores the (trimmed)     *)
(* text after the marker as userProfile, appends exactly one agent message *)
(* holding the (trimmed) text before it, pushes SPECIALIST and makes it    *)
(* the current stage, and leaves currentDemand and recommendations alone.  *)
C3_ProfilerAdvances ==
  [][\A res \in AppFetchResults :
       ( /\ profilerSettles(res)
         /\ callGemini(res).ok
         /\ Occurs(callGemini(res).text, PROFILE_READY) )
       => LET text == callGemini(res).text
          IN  /\ state'.userProfile = Stripped(AfterFirst(text, PROFILE_READY))
              /\ state'.history = Append(state.history,
                   Message("agent", "Profiler", Stripped(BeforeFirst(text, PROFILE_READY))))
              /\ MessagesOf(turn'.log) = <<<<"msg", "Profiler">>>>
              /\ state'.currentRole = "SPECIALIST"
              /\ state'.stateHistory = Append(state.stateHistory, "SPECIALIST")
              /\ state'.currentDemand = state.currentDemand
              /\ state'.recommendations = state.recommendations]_vars

C3_Witness ==
  /\ turn.pc = "resolved"
  /\ turn.log = <<Notify("Profiler"), Call("PROFILER"), <<"msg", "Profiler">>>>
  /\ state.userProfile = <<"k", "w">>
  /\ state.stateHistory = <<"PROFILER", "SPECIALIST">>
  /\ state.history[Len(state.history)] = Message("agent", "Profiler", <<"o", "k">>)


(* C4: in PROFILER, SPECIALIST and HOST a response without the stage's     *)
(* marker changes neither the stage, the stack nor the extracted fields,   *)
(* and appends exactly one agent message whose content is the response,    *)
(* verbatim.  (HOST has no marker.)                                        *)
C4_NoMarkerVerbatim ==
  [][\A res \in AppFetchResults :
       LET text == callGemini(res).text
           kept(agent) ==
             /\ StageSame
             /\ ExtractedSame
             /\ state'.history = Append(state.history, Message("agent", agent, text))
       IN  callGemini(res).ok =>
             /\ (profilerSettles(res) /\ ~Occurs(text, PROFILE_READY))
                  => kept("Profiler")
             /\ (specialistSettles(res) /\ ~Occurs(text, DEMAND_LOCKED))
                  => kept("Genre Specialist")
             /\ hostSettles(res) => kept("Host")]_vars

(* a HOST turn has answered with text that has whitespace at both ends *)
C4_Witness ==
  /\ turn.pc = "resolved"
  /\ turn.role0 = "HOST"
  /\ CallsOf(turn.log) = <<Call("HOST")>>
  /\ state.history[Len(state.history)] =
       Message("agent", "Host",
               <<" ", "g", " ", "|", "|", "DEMAND_LOCKED", "|", "|", "d", "m", "\n">>)

(* C5: a backward turn with more than one stage on the stack pops exactly  *)
(* one, makes the new top the current stage and clears by destination:     *)
(* PROFILER clears profile, demand and recommendations; SPECIALIST clears  *)
(* demand and recommendations and keeps the profile; HOST clears nothing.  *)
C5_BackPopsAndClears ==
  [][\A text \in BackwardTexts :
       ( /\ Len(state.stateHistory) > 1
         /\ turn'.text = text
         /\ handleSendMessage(text) )
       => LET n == Len(state.stateHistory)
              dest == state.stateHistory[n - 1]
          IN  /\ state'.stateHistory = SubSeq(state.stateHistory, 1, n - 1)
              /\ state'.currentRole = dest
              /\ dest = "PROFILER" =>
                   /\ state'.userProfile = <<>>
                   /\ state'.currentDemand = <<>>
                   /\ state'.recommendations = <<>>
              /\ dest = "SPECIALIST" =>
                   /\ state'.userProfile = state.userProfile
                   /\ state'.currentDemand = <<>>
                   /\ state'.recommendations = <<>>
              /\ dest = "HOST" => ExtractedSame]_vars

(* back from CRITIC to SPECIALIST: the demand is gone, the profile kept *)
C5_Witness ==
  /\ HasBackwardKeyword(turn.text)
  /\ turn.stack0 = <<"PROFILER", "SPECIALIST", "CRITIC">>
  /\ state.stateHistory = <<"PROFILER", "SPECIALIST">>
  /\ state.userProfile # <<>>
  /\ state.currentDemand = <<>>

(* C6: a backward turn with one stage on the stack changes neither the     *)
(* stage, the stack nor the extracted fields and emits exactly one         *)
(* message, the refusal.                                                   *)
C6_BackRefused ==
  [][\A text \in BackwardTexts :
       ( /\ Len(state.stateHistory) = 1
         /\ turn'.text = text
         /\ handleSendMessage(text) )
       => /\ StageSame
          /\ ExtractedSame
          /\ turn'.log = <<<<"msg", "System">>>>
          /\ state'.history =
               state.history \o <<Message("user", NoName, text),
                                  Message("agent", "System", <<"already at the first step">>)>>]_vars

C6_Witness ==
  /\ HasBackwardKeyword(turn.text)
  /\ turn.stack0 = <<"PROFILER">>
  /\ turn.pc = "resolved"
  /\ state.stateHistory = <<"PROFILER">>
  /\ state.history[Len(state.history)].agentName = "System"

(* C7: a turn whose text contains a backward keyword anywhere issues no    *)
(* generation call and no active-agent notification and runs no stage      *)
(* logic, in every stage, whether the navigation succeeds or is refused.   *)
C7_BackwardIsSilent ==
  HasBackwardKeyword(turn.text) =>
    /\ turn.pc = "resolved"
    /\ CallsOf(turn.log) = <<>>
    /\ NotificationsOf(turn.log) = <<>>
    /\ turn.error = <<>>

(* the keyword is not at the start of the text, and the turn began in HOST *)
C7_Witness ==
  /\ turn.text = <<"x", "chong", "lai">>
  /\ turn.role0 = "HOST"
  /\ turn.pc = "resolved"

(* C8: every successful backward navigation emits exactly one message,     *)
(* whatever stage it returns to.                                           *)
C8_BackEmitsOne ==
  (HasBackwardKeyword(turn.text) /\ Len(turn.stack0) > 1) =>
    Len(MessagesOf(turn.log)) = 1

(* C9: whenever no processUserMessage call is in progress the current      *)
(* stage is not CRITIC.                                                    *)
C9_CriticTransient ==
  turn.pc \notin Awaiting => state.currentRole # "CRITIC"

(* C10: when a generation call made for a turn fails (profiler,            *)
(* specialist, critic or host call), the stage and the stack are, right    *)
(* after the failure, what they were when the turn began.                  *)
C10_FailureRestores ==
  [][\A res \in AppFetchResults :
       ~callGemini(res).ok =>
         /\ (profilerSettles(res) \/ specialistSettles(res) \/ hostSettles(res))
              => /\ state'.currentRole = turn.role0
                 /\ state'.stateHistory = turn.stack0
         /\ \A i \in DOMAIN detached :
              (criticSettles(i, res) \/ hostStepSettles(i, res))
                => /\ state'.currentRole = detached[i].role0
                   /\ state'.stateHistory = detached[i].stack0]_vars


(* a pending request of the turn, or of a running runCriticAndHost, settles *)
TurnSettles(res) ==
  profilerSettles(res) \/ specialistSettles(res) \/ hostSettles(res)

DetachedSettles(i, res) == criticSettles(i, res) \/ hostStepSettles(i, res)

(* C11: every failing generation call, the critic and host calls of the    *)
(* compound transition included, appends exactly one message, of role      *)
(* 'system', whose content describes the error.                            *)
C11_FailureAppendsSystemMessage ==
  [][\A res \in AppFetchResults :
       ( /\ ~callGemini(res).ok
         /\ TurnSettles(res) \/ \E i \in DOMAIN detached : DetachedSettles(i, res) )
       => /\ Len(state'.history) = Len(state.history) + 1
          /\ IsPrefix(state.history, state'.history)
          /\ state'.history[Len(state'.history)].role = "system"
          /\ Occurs(state'.history[Len(state'.history)].content,
                    callGemini(res).text)]_vars

(* C12: every failure of a call issued for a turn (profiler, specialist,   *)
(* critic or host call) rejects that turn's processUserMessage promise     *)
(* with the error, after the error message has been appended.              *)
C12_FailureRejectsTurn ==
  [][\A res \in AppFetchResults :
       ~callGemini(res).ok =>
         /\ TurnSettles(res) =>
              /\ turn'.pc = "rejected"
              /\ turn'.error = callGemini(res).text
              /\ Len(state'.history) = Len(state.history) + 1
         /\ \A i \in DOMAIN detached :
              DetachedSettles(i, res) =>
                /\ turn'.pc = "rejected"
                /\ turn'.error = callGemini(res).text
                /\ IsPrefix(detached[i].log, turn'.log)
                /\ Len(state'.history) = Len(state.history) + 1]_vars


(* a credential that is empty or made of whitespace only *)
KeyBlank(key) == \A k \in DOMAIN key : key[k] \in Whitespace

ConfigError == <<"API key is empty or missing">>

(* C13: with an empty or whitespace-only credential a non-backward turn    *)
(* in PROFILER, SPECIALIST or HOST fails with the configuration error, and *)
(* no request is ever issued.                                              *)
C13_BlankKeyFails ==
  KeyBlank(apiKey) =>
    /\ CallsOf(turn.log) = <<>>
    /\ turn.pc \notin Awaiting
    /\ detached = <<>>
    /\ ( /\ turn.pc # "idle"
         /\ turn.text \notin BackwardTexts
         /\ turn.role0 \in {"PROFILER", "SPECIALIST", "HOST"} )
       => /\ turn.pc \in {"rejected", "caught"}
          /\ turn.error = ConfigError

C13_Witness ==
  /\ apiKey = <<" ">>
  /\ turn.text = <<"h", "i">>
  /\ turn.pc = "rejected"
  /\ turn.error = ConfigError


(* the generation requests that have been issued and have not settled *)
Outstanding == (IF turn.pc \in Awaiting THEN 1 ELSE 0) + Len(detached)

(* C14: with turns started only after the previous processUserMessage      *)
(* promise has settled, at most one generation request is outstanding at   *)
(* any time; the critic and host requests overlap no request of a later    *)
(* turn.                                                                   *)
C14_SingleFlight == Outstanding <= 1

StageName(role) ==
  CASE role = "PROFILER" -> "Profiler"
    [] role = "SPECIALIST" -> "Genre Specialist"
    [] role = "CRITIC" -> "Critic"
    [] role = "HOST" -> "Host"

NotificationsAndCalls(log) ==
  SelectSeq(log, LAMBDA e : e[1] = "agent" \/ e[1] = "call")

(* C15: a non-backward turn notifies the active agent, by the name of the  *)
(* current stage, before it issues any call; a compound SPECIALIST turn    *)
(* notifies twice more within the turn, for CRITIC before the critic call  *)
(* and then for HOST before the host call.                                 *)
C15_NotificationsWithinTurn ==
  (turn.pc # "idle" /\ turn.text \notin BackwardTexts) =>
    /\ turn.log[1] = Notify(StageName(turn.role0))
    /\ (turn.pc = "resolved" /\ Call("CRITIC") \in {turn.log[k] : k \in DOMAIN turn.log})
       => NotificationsAndCalls(turn.log) =
            << Notify("Genre Specialist"), Call("SPECIALIST"),
               Notify("Critic Agent"), Call("CRITIC"),
               Notify("Host Agent"), Call("HOST") >>

(* C16: the stage stack always has at least one entry.                     *)
C16_StackNeverEmpty == Len(state.stateHistory) >= 1

(* a backward navigation arrived with one entry on the stack and was      *)
(* refused; the stack, the stage and the extracted values are as before   *)
C16_Witness ==
  /\ turn.text \in BackwardTexts
  /\ turn.pc = "resolved"
  /\ turn.stack0 = <<"PROFILER">>
  /\ state.stateHistory = <<"PROFILER">>
  /\ state.currentRole = "PROFILER"
  /\ turn.log = <<Emit(Message("agent", "System", <<"already at the first step">>))>>


(* the calls one turn may issue, in order *)
AllowedCalls ==
  { <<>>, <<Call("PROFILER")>>, <<Call("SPECIALIST")>>, <<Call("HOST")>>,
    <<Call("SPECIALIST"), Call("CRITIC")>>,
    <<Call("SPECIALIST"), Call("CRITIC"), Call("HOST")>> }

(* the answers on which callGemini throws *)
FailingResults == {res \in AppFetchResults : ~callGemini(res).ok}

NoCallAfterThrow(log) ==
  \A j \in DOMAIN log :
    log[j][1] = "throw" => \A k \in (j + 1)..Len(log) : log[k][1] # "call"

(* C19: a turn issues at most one generation call, the compound           *)
(* SPECIALIST turn at most three (specialist, critic, host); after a       *)
(* generation call has failed no further call is issued for that turn.     *)
C19_NoRetry ==
  [][/\ turn'.log # turn.log =>
          /\ CallsOf(turn'.log) \in AllowedCalls
          /\ NoCallAfterThrow(turn'.log)
     /\ detached' # detached =>
          \A i \in DOMAIN detached' : CallsOf(detached'[i].log) \in AllowedCalls
     /\ \A res \in FailingResults :
          /\ (turn.pc \in Awaiting /\ turn' # turn /\ TurnSettles(res)) =>
               /\ CallsOf(turn'.log) = CallsOf(turn.log)
               /\ turn'.pc \notin Awaiting
               /\ detached' = detached
          /\ \A i \in DOMAIN detached :
               (detached' # detached /\ DetachedSettles(i, res)) =>
                 /\ detached' = remove(detached, i)
                 /\ turn' = turn]_vars

(* a turn whose only call failed has been rejected *)
C19_Witness ==
  /\ turn.pc = "rejected"
  /\ turn.log = << Notify("Genre Specialist"), Call("SPECIALIST"),
                   Throw("SPECIALIST"),
                   Emit(Message("agent", "System", <<>>)) >>

(* C20: every orchestrator operation (stage processing, backward          *)
(* navigation, error reporting) leaves the messages already in the history *)
(* unchanged and in place and adds only at the end; only a setHistory      *)
(* replaces the sequence.                                                  *)
C20_HistoryAppendOnly ==
  [][/\ IsPrefix(state.history, state'.history) \/ handleClearHistory
     /\ \A text \in UserTexts :
          (turn'.text = text /\ handleSendMessage(text)) =>
            IsPrefix(Append(state.history, Message("user", NoName, text)),
                     state'.history)]_vars

(* a backward navigation has appended its notice behind the welcome and   *)
(* the user's message, which are unchanged and in place                    *)
C20_Witness ==
  /\ Len(state.history) = 3
  /\ state.history[1] = initialMessages[1]
  /\ state.history[2].role = "user"
  /\ state.history[2].content \in BackwardTexts
  /\ state.history[3].agentName = "System"


(* reply and payload of a response that contains marker m *)
Split(r, m) ==
  [reply |-> Stripped(BeforeFirst(r, m)), payload |-> Stripped(AfterFirst(r, m))]

ProfileSplits ==
  [r \in {x \in ParseResponses : Occurs(x, PROFILE_READY)} |-> Split(r, PROFILE_READY)]

DemandSplits ==
  [r \in {x \in ParseResponses : Occurs(x, DEMAND_LOCKED)} |-> Split(r, DEMAND_LOCKED)]

(* C17: for every response that contains the stage's marker the visible   *)
(* reply is the text before the first occurrence of the marker, trimmed,   *)
(* and the stored payload is all the text after that occurrence, trimmed;  *)
(* the payload is taken as it is, empty or with further markers in it.     *)
C17_MarkerSplit ==
  [][\A res \in ParseFetchResults :
       LET r == callGemini(res).text
       IN  callGemini(res).ok =>
             /\ ( /\ turn.pc = "runProfiler"
                  /\ r \in DOMAIN ProfileSplits
                  /\ profilerSettles(res) )
                => /\ state'.userProfile = ProfileSplits[r].payload
                   /\ state'.history =
                        Append(state.history,
                               Message("agent", "Profiler", ProfileSplits[r].reply))
             /\ ( /\ turn.pc = "runSpecialist"
                  /\ r \in DOMAIN DemandSplits
                  /\ specialistSettles(res) )
                => /\ state'.currentDemand = DemandSplits[r].payload
                   /\ state'.history =
                        Append(state.history,
                               Message("agent", "Genre Specialist", DemandSplits[r].reply))]_vars

(* a reply with two markers has been split at the first: the second is in *)
(* the stored demand                                                       *)
C17_Witness ==
  /\ turn.pc = "resolved"
  /\ Occurs(state.currentDemand, DEMAND_LOCKED)
  /\ state.history[Len(state.history)].content = <<>>


(* C18: with a non-blank credential one invocation issues exactly one     *)
(* request and its outcome is classified in this order: a non-success      *)
(* status fails with the API error carrying status and body; a success     *)
(* without candidates fails with the no-candidates error; otherwise the    *)
(* text of the first candidate is returned.  With a blank credential it    *)
(* fails without a request.                                                *)
C18_ClientClassifies ==
  [][/\ \A text \in UserTexts \ BackwardTexts :
          (turn'.text = text /\ handleSendMessage(text)) =>
            IF KeyBlank(apiKey)
            THEN /\ CallsOf(turn'.log) = <<>>
                 /\ turn'.pc = "rejected"
                 /\ turn'.error = ConfigError
            ELSE /\ CallsOf(turn'.log) = <<Call(turn'.role0)>>
                 /\ turn'.pc \in Awaiting
     /\ \A res \in ClientFetchResults :
          (turn.pc = "runProfiler" /\ res.kind = "response" /\ profilerSettles(res)) =>
            /\ CallsOf(turn'.log) = CallsOf(turn.log)
            /\ IF ~res.ok
               THEN /\ turn'.pc = "rejected"
                    /\ turn'.error[1] = "API Error "
                    /\ Occurs(turn'.error, <<res.status>>)
                    /\ IsPrefix(res.body, SubSeq(turn'.error,
                                  Len(turn'.error) - Len(res.body) + 1, Len(turn'.error)))
               ELSE IF res.candidates = <<>>
               THEN /\ turn'.pc = "rejected"
                    /\ turn'.error = <<"No candidates returned from API">>
               ELSE /\ turn'.pc = "resolved"
                    /\ state'.history =
                         Append(state.history,
                                Message("agent", "Profiler", res.candidates[1]))]_vars

(* a non-success answer has been reported with its status and its body *)
C18_Witness ==
  /\ turn.pc = "rejected"
  /\ CallsOf(turn.log) = <<Call("PROFILER")>>
  /\ turn.error = <<"API Error ", "404", ": ", "Not Found", ". ", "b", "a", "d">>


HappyPath == <<"PROFILER", "SPECIALIST", "CRITIC", "HOST">>

(* C22: with turns started only after the previous processUserMessage      *)
(* promise has settled, stateHistory is always a non-empty prefix of       *)
(* [PROFILER, SPECIALIST, CRITIC, HOST]: no stage repeated, none skipped.  *)
C22_StackIsPathPrefix ==
  /\ state.stateHistory # <<>>
  /\ IsPrefix(state.stateHistory, HappyPath)

(* C23: with turns started only after the previous processUserMessage      *)
(* promise has settled, in PROFILER the profile, the demand and the        *)
(* recommendations are all empty, and in SPECIALIST the demand and the     *)
(* recommendations are empty.                                              *)
C23_ExtractedMatchStage ==
  /\ state.currentRole = "PROFILER" =>
       /\ state.userProfile = <<>>
       /\ state.currentDemand = <<>>
       /\ state.recommendations = <<>>
  /\ state.currentRole = "SPECIALIST" =>
       /\ state.currentDemand = <<>>
       /\ state.recommendations = <<>>

(* C24: every non-backward turn that resolves without error has issued at *)
(* least one generation call and appended at least one agent message by    *)
(* the time it resolves, in whatever stage it ran.                         *)
C24_ResolvedTurnCalledAndReplied ==
  (turn.pc = "resolved" /\ turn.text \notin BackwardTexts) =>
    /\ CallsOf(turn.log) # <<>>
    /\ \E k \in DOMAIN turn.log : turn.log[k][1] = "msg"


(* the last k messages of history h, all of them when there are fewer *)
LastMessages(h, k) ==
  LET n == IF k < Len(h) THEN k ELSE Len(h)
  IN  [i \in 1..n |-> h[Len(h) - n + i]]

(* one 'role: content' line for each message, in order *)
RECURSIVE Lines(_)
Lines(ms) ==
  IF ms = <<>> THEN <<>>
  ELSE LET init == SubSeq(ms, 1, Len(ms) - 1)
           line == <<ms[Len(ms)].role, ": ">> \o ms[Len(ms)].content
       IN  IF init = <<>> THEN line ELSE Lines(init) \o <<"\n">> \o line

(* C21: the history context of a PROFILER, SPECIALIST or HOST prompt is   *)
(* the last min(5, n) messages, in order, as 'role: content' lines, of the *)
(* history last supplied through setHistory with what the orchestrator     *)
(* appended since; a history replaced between turns is the one used.       *)
C21_ContextIsLastFive ==
  [][(turn.pc \in Settled /\ turn'.pc \in Awaiting) =>
       /\ state'.history = state.history
       /\ prompt' = Lines(LastMessages(state.history, 5))]_vars

(* a prompt has been built from a history of six messages: the first is   *)
(* left out                                                                *)
C21_Witness ==
  /\ turn.pc = "runSpecialist"
  /\ Len(state.history) = 6
  /\ state.history[1] # state.history[2]
  /\ prompt = Lines(SubSeq(state.history, 2, 6))


(* no turn and no generation call is in progress *)
Quiescent == turn.pc \in Settled /\ detached = <<>>

(* C25: every active-agent notification is followed by a message emission *)
(* or by the rejection of the turn, so that, every generation call         *)
(* returning or failing eventually, isTyping becomes false again.          *)
C25_TypingEventuallyStops ==
  []<>Quiescent => (app.isTyping ~> ~app.isTyping)

(* C26: whenever no turn and no generation call is in progress and the    *)
(* message list is non-empty, the list in storage equals the current       *)
(* message list, the latest agent reply included.                          *)
C26_StoredIsCurrent ==
  (Quiescent /\ state.history # <<>>) => app.stored = state.history

(* C27: saving settings with a changed credential or model replaces the   *)
(* orchestrator by one in PROFILER with stack [PROFILER] and empty         *)
(* extracted fields, whatever stage was reached, and hands it the message  *)
(* list as its history; clearing the history leaves the stage, the stack   *)
(* and the extracted fields as they are.                                   *)
C27_SettingsReplaceClearKeeps ==
  [][/\ (apiKey' # apiKey \/ app'.model # app.model) =>
          /\ state'.currentRole = "PROFILER"
          /\ state'.stateHistory = <<"PROFILER">>
          /\ state'.userProfile = <<>>
          /\ state'.currentDemand = <<>>
          /\ state'.recommendations = <<>>
          /\ state'.history = state.history
     /\ handleClearHistory =>
          /\ StageSame
          /\ ExtractedSame]_vars

(* the settings were saved with another credential after the host stage   *)
(* had been reached: the host's message is still in the list               *)
C27_Witness ==
  /\ apiKey = <<"A", "I", "z", "b">>
  /\ state.currentRole = "PROFILER"
  /\ state.stateHistory = <<"PROFILER">>
  /\ \E k \in DOMAIN state.history : state.history[k].agentName = "Host"

====
